---- MODULE Spec2Model ----
(***************************************************************************)
(* Seat reservation service (handler.py): a request router in front of a   *)
(* DynamoDB table keyed by seatId.  Every invocation of handle_request is  *)
(* an independent, stateless execution; invocations run concurrently and   *)
(* meet only in the table.  An invocation is modelled in three steps:      *)
(*   Receive     dispatch, body parsing and validation (local);           *)
(*   Scan / PutItem / DeleteItem                                            *)
(*               the single store call of the handler, atomic in the      *)
(*               store, together with the mapping of its outcome to the   *)
(*               response the handler builds;                              *)
(*   Reply       the response leaves handle_request.                      *)
(* A store call that raises an error other than the condition failure is   *)
(* taken not to have modified the table.                                   *)
(***************************************************************************)
EXTENDS Integers, Sequences, FiniteSets, TLC

\* number of invocations that can be in flight at the same time
NumSlots == 2
Slots == 1..NumSlots

Seats == {"A1", "A2"}
Users == {"u1", "u2"}

\* Python's None: a key absent from a dict (dict.get), an absent body
None == "None"
\* the empty string, falsy like None
EmptyStr == ""
\* no record / no response / no pending call
Free == "free"
NoResponse == [statusCode |-> 0, body |-> [message |-> "no response"]]

----------------------------------------------------------------------------
(* The store: a set of items {'seatId': {'S': s}, 'reservedBy': {'S': u}}. *)

Item(s, u) == [seatId |-> [S |-> s], reservedBy |-> [S |-> u]]

AllItems == {Item(s, u) : s \in Seats, u \in Users}

\* items of table t stored under key s
ItemsAt(t, s) == {i \in t : i.seatId.S = s}

\* the owner recorded for seat s, Free when there is no record
Owner(t, s) == IF ItemsAt(t, s) = {} THEN Free
               ELSE (CHOOSE i \in ItemsAt(t, s) : TRUE).reservedBy.S

\* outcomes of a store call
OK == "ok"
ConditionalCheckFailedException == "ConditionalCheckFailedException"
StoreError == "Exception"

\* put_item without its ConditionExpression: the item is always written
put_item_unconditional(t, s, u) ==
    [table |-> (t \ ItemsAt(t, s)) \cup {Item(s, u)}, raised |-> OK]

\* put_item that writes the item before it reports the failed condition
put_item_write_then_check(t, s, u) ==
    [table |-> (t \ ItemsAt(t, s)) \cup {Item(s, u)},
     raised |-> IF ItemsAt(t, s) # {} THEN ConditionalCheckFailedException ELSE OK]

\* put_item whose condition looks at the whole table instead of the key
put_item_any_item(t, s, u) ==
    IF t # {}
    THEN [table |-> t, raised |-> ConditionalCheckFailedException]
    ELSE [table |-> (t \ ItemsAt(t, s)) \cup {Item(s, u)}, raised |-> OK]

\* put_item that succeeds again for the user who already holds the seat
put_item_same_owner_ok(t, s, u) ==
    IF \E i \in ItemsAt(t, s) : i.reservedBy.S # u
    THEN [table |-> t, raised |-> ConditionalCheckFailedException]
    ELSE [table |-> (t \ ItemsAt(t, s)) \cup {Item(s, u)}, raised |-> OK]

\* put_item(Item=..., ConditionExpression='attribute_not_exists(seatId)'):
\* the item replaces the one stored under its key, if the condition holds
put_item(t, s, u) ==
    IF ItemsAt(t, s) # {}
    THEN [table |-> t, raised |-> ConditionalCheckFailedException]
    ELSE [table |-> (t \ ItemsAt(t, s)) \cup {Item(s, u)}, raised |-> OK]

\* delete_item without its ConditionExpression: the key alone decides
delete_item_by_key(t, s, u) ==
    [table |-> t \ ItemsAt(t, s), raised |-> OK]

\* delete_item that reports success and leaves the item in place
delete_item_keeps_item(t, s, u) ==
    IF \E i \in ItemsAt(t, s) : i.reservedBy.S = u
    THEN [table |-> t, raised |-> OK]
    ELSE [table |-> t, raised |-> ConditionalCheckFailedException]

\* delete_item whose condition holds on a missing item
delete_item_idempotent(t, s, u) ==
    IF \A i \in ItemsAt(t, s) : i.reservedBy.S = u
    THEN [table |-> t \ ItemsAt(t, s), raised |-> OK]
    ELSE [table |-> t, raised |-> ConditionalCheckFailedException]

\* delete_item(Key=..., ConditionExpression='reservedBy = :reservedBy'):
\* the condition is false on a missing item
delete_item(t, s, u) ==
    IF \E i \in ItemsAt(t, s) : i.reservedBy.S = u
    THEN [table |-> t \ ItemsAt(t, s), raised |-> OK]
    ELSE [table |-> t, raised |-> ConditionalCheckFailedException]

\* scan(TableName=...): response['Items']
scan(t) == [Items |-> t, raised |-> OK]

----------------------------------------------------------------------------
(* Requests.                                                               *)

Methods == {"GET", "POST", "DELETE"}
Paths == {"/seats", "/reserve", "/cancel"}

\* event['body']: absent, a text that is not JSON (the empty string), a JSON
\* value that is not an object, or a JSON object with its two fields (None:
\* the key is absent or null)
Body(k, s, u) == [kind |-> k, seatId |-> s, userId |-> u]
Bodies == {Body("absent", None, None), Body("empty", None, None),
           Body("array", None, None)}
          \cup {Body("object", s, u) : s \in {None, EmptyStr} \cup Seats,
                                       u \in {None, EmptyStr} \cup Users}

\* the events: a body is carried by POST requests, the event of a GET or a
\* DELETE has none
Events == {e \in [httpMethod : Methods, path : Paths, body : Bodies] :
              e.httpMethod = "POST" \/ e.body.kind = "absent"}

\* json.loads(body): raises on None (TypeError) and on a text that is not
\* JSON (JSONDecodeError)
json_loads(b) == IF b.kind \in {"absent", "empty"}
                 THEN [raised |-> TRUE, value |-> b]
                 ELSE [raised |-> FALSE, value |-> b]

\* json.dumps({'message': m}) seen as the JSON object it denotes
Message(m) == [message |-> m]
Response(code, b) == [statusCode |-> code, body |-> b]

\* results of the local part of a handler: a response, a store call to make,
\* or an exception leaving the function
Return(resp) == [kind |-> "return", response |-> resp, seat_id |-> None, user_id |-> None]
Call(s, u) == [kind |-> "call", response |-> NoResponse, seat_id |-> s, user_id |-> u]
Raise == [kind |-> "raise", response |-> NoResponse, seat_id |-> None, user_id |-> None]

\* `not x` for the values a field can take
Falsy(x) == x \in {None, EmptyStr}

\* reserve_seat / cancel_seat up to the store call: data.get raises on a
\* value that is not a dict (outside the handler's own try)
validate(data) ==
    IF data.kind # "object" THEN Raise
    ELSE LET seat_id == data.seatId
             user_id == data.userId
         IN  IF Falsy(seat_id) \/ Falsy(user_id)
             THEN Return(Response(400, Message("Seat ID and User ID are required.")))
             ELSE Call(seat_id, user_id)

\* dispatch that looks at the path alone
dispatch_path_only(event) ==
    IF event.path = "/seats" THEN Call(None, None)
    ELSE IF event.httpMethod = "POST" /\ event.path \in {"/reserve", "/cancel"}
         THEN LET data == json_loads(event.body)
              IN  IF data.raised THEN Raise ELSE validate(data.value)
         ELSE Return(Response(404, Message("Not Found")))

\* the route taken by handle_request
dispatch(event) ==
    IF event.httpMethod = "GET" /\ event.path = "/seats" THEN Call(None, None)
    ELSE IF event.httpMethod = "POST" /\ event.path \in {"/reserve", "/cancel"}
         THEN LET data == json_loads(event.body)
              IN  IF data.raised THEN Raise ELSE validate(data.value)
         ELSE Return(Response(404, Message("Not Found")))

\* handle_request without its try/except
handle_request_no_except(event) == dispatch(event)

\* handle_request: the try/except around the dispatch
handle_request(event) ==
    LET r == dispatch(event)
    IN  IF r.kind = "raise"
        THEN Return(Response(500, Message("An internal error occurred.")))
        ELSE r

\* get_seats reading the owner from the wrong attribute
Listing_wrong_attribute(items) ==
    [s \in {i.seatId.S : i \in items} |->
        [reserved_by |-> (CHOOSE i \in items : i.seatId.S = s).seatId.S]]

\* get_seats after the scan
Listing(items) ==
    [s \in {i.seatId.S : i \in items} |->
        [reserved_by |-> (CHOOSE i \in items : i.seatId.S = s).reservedBy.S]]

get_seats_result(res) ==
    IF res.raised = OK THEN Response(200, Listing(res.Items))
    ELSE Response(500, Message("Failed to retrieve seats."))

\* reserve_seat putting the text of the exception into the body
reserve_seat_result_leaks(raised, seat_id) ==
    IF raised = OK
    THEN Response(200, Message("Seat " \o seat_id \o " reserved successfully."))
    ELSE IF raised = ConditionalCheckFailedException
    THEN Response(409, Message("Seat " \o seat_id \o " is already reserved."))
    ELSE Response(500, Message("Error reserving seat: " \o raised))

\* reserve_seat that reports success when the condition of put_item failed
reserve_seat_result_conflict_200(raised, seat_id) ==
    IF raised = OK \/ raised = ConditionalCheckFailedException
    THEN Response(200, Message("Seat " \o seat_id \o " reserved successfully."))
    ELSE Response(500, Message("An error occurred during reservation."))

\* reserve_seat after put_item
reserve_seat_result(raised, seat_id) ==
    IF raised = OK
    THEN Response(200, Message("Seat " \o seat_id \o " reserved successfully."))
    ELSE IF raised = ConditionalCheckFailedException
    THEN Response(409, Message("Seat " \o seat_id \o " is already reserved."))
    ELSE Response(500, Message("An error occurred during reservation."))

\* cancel_seat after delete_item
cancel_seat_result(raised, seat_id) ==
    IF raised = OK
    THEN Response(200, Message("Reservation for seat " \o seat_id \o " canceled."))
    ELSE IF raised = ConditionalCheckFailedException
    THEN Response(400, Message("You cannot cancel this reservation as it does not belong to you."))
    ELSE Response(500, Message("An error occurred while canceling."))

----------------------------------------------------------------------------
(* State.                                                                  *)

VARIABLES
    table,        \* the DynamoDB table: a set of items
    pc,           \* per invocation: "idle", "store", "reply", "raised"
    http_method,  \* per invocation: the request line being served
    path,
    seat_id,      \* per invocation: the locals of reserve_seat / cancel_seat
    user_id,
    response,     \* per invocation: the response built by the handler
    granted,      \* per seat: reserves answered 200 since the last cancel
                  \* answered 200 (history, capped at 2)
    trip,         \* the client of the round trip: its seat and user, the
                  \* table it started from, the responses it got so far
    calls,        \* per invocation: store calls it has made (history,
                  \* capped at 2)
    latest        \* per seat: the userId of the latest reserve answered 200
                  \* that no cancel answered 200 has followed (history)

vars == <<table, pc, http_method, path, seat_id, user_id, response, granted,
          trip, calls, latest>>

\* no round trip is being made: the requests are those of any clients
NoTrip == [seat |-> None, user |-> None, before |-> {}, log |-> <<>>]

Init ==
    /\ table = {}
    /\ pc = [r \in Slots |-> "idle"]
    /\ http_method = [r \in Slots |-> None]
    /\ path = [r \in Slots |-> None]
    /\ seat_id = [r \in Slots |-> None]
    /\ user_id = [r \in Slots |-> None]
    /\ response = [r \in Slots |-> NoResponse]
    /\ granted = [s \in Seats |-> 0]
    /\ trip = NoTrip
    /\ calls = [r \in Slots |-> 0]
    /\ latest = [s \in Seats |-> None]

\* handle_request is invoked with event and runs up to its store call, or to
\* its response when it makes none; an exception leaving handle_request
\* ends the invocation in "raised"
ReceiveEvent(r, event) ==
    /\ pc[r] = "idle"
    /\ LET h == handle_request(event)
       IN  /\ pc' = [pc EXCEPT ![r] = IF h.kind = "call" THEN "store"
                                      ELSE IF h.kind = "return" THEN "reply"
                                      ELSE "raised"]
           /\ seat_id' = [seat_id EXCEPT ![r] = h.seat_id]
           /\ user_id' = [user_id EXCEPT ![r] = h.user_id]
           /\ response' = [response EXCEPT ![r] = h.response]
    /\ http_method' = [http_method EXCEPT ![r] = event.httpMethod]
    /\ path' = [path EXCEPT ![r] = event.path]
    /\ UNCHANGED <<table, granted, trip, calls, latest>>

Receive(r) == \E event \in Events : ReceiveEvent(r, event)

\* get_seats: the scan and the response built from it
Scan(r) ==
    /\ pc[r] = "store" /\ path[r] = "/seats"
    /\ \E res \in {scan(table), [Items |-> {}, raised |-> StoreError]} :
           response' = [response EXCEPT ![r] = get_seats_result(res)]
    /\ pc' = [pc EXCEPT ![r] = "reply"]
    /\ calls' = [calls EXCEPT ![r] = IF @ < 2 THEN @ + 1 ELSE @]
    /\ UNCHANGED <<table, http_method, path, seat_id, user_id, granted, trip, latest>>

\* reserve_seat that calls put_item again when the store call fails
PutItem_retry(r) ==
    /\ pc[r] = "store" /\ path[r] = "/reserve"
    /\ \E res \in {put_item(table, seat_id[r], user_id[r]),
                   [table |-> table, raised |-> StoreError]} :
           /\ table' = res.table
           /\ response' = [response EXCEPT ![r] =
                             IF res.raised = StoreError THEN @
                             ELSE reserve_seat_result(res.raised, seat_id[r])]
           /\ granted' = [granted EXCEPT ![seat_id[r]] =
                             IF res.raised = OK /\ @ < 2 THEN @ + 1 ELSE @]
           /\ latest' = [latest EXCEPT ![seat_id[r]] =
                            IF res.raised = OK THEN user_id[r] ELSE @]
           /\ pc' = [pc EXCEPT ![r] = IF res.raised = StoreError THEN "store" ELSE "reply"]
    /\ calls' = [calls EXCEPT ![r] = IF @ < 2 THEN @ + 1 ELSE @]
    /\ UNCHANGED <<http_method, path, seat_id, user_id, trip>>

\* reserve_seat: the conditional put and the response built from its outcome
PutItem(r) ==
    /\ pc[r] = "store" /\ path[r] = "/reserve"
    /\ \E res \in {put_item(table, seat_id[r], user_id[r]),
                   [table |-> table, raised |-> StoreError]} :
           /\ table' = res.table
           /\ response' = [response EXCEPT ![r] = reserve_seat_result(res.raised, seat_id[r])]
           /\ granted' = [granted EXCEPT ![seat_id[r]] =
                             IF res.raised = OK /\ @ < 2 THEN @ + 1 ELSE @]
           /\ latest' = [latest EXCEPT ![seat_id[r]] =
                            IF reserve_seat_result(res.raised, seat_id[r]).statusCode = 200
                            THEN user_id[r] ELSE @]
    /\ pc' = [pc EXCEPT ![r] = "reply"]
    /\ calls' = [calls EXCEPT ![r] = IF @ < 2 THEN @ + 1 ELSE @]
    /\ UNCHANGED <<http_method, path, seat_id, user_id, trip>>

\* cancel_seat: the conditional delete and the response built from its outcome
DeleteItem(r) ==
    /\ pc[r] = "store" /\ path[r] = "/cancel"
    /\ \E res \in {delete_item(table, seat_id[r], user_id[r]),
                   [table |-> table, raised |-> StoreError]} :
           /\ table' = res.table
           /\ response' = [response EXCEPT ![r] = cancel_seat_result(res.raised, seat_id[r])]
           /\ granted' = [granted EXCEPT ![seat_id[r]] =
                             IF res.raised = OK THEN 0 ELSE @]
           /\ latest' = [latest EXCEPT ![seat_id[r]] =
                            IF cancel_seat_result(res.raised, seat_id[r]).statusCode = 200
                            THEN None ELSE @]
    /\ pc' = [pc EXCEPT ![r] = "reply"]
    /\ calls' = [calls EXCEPT ![r] = IF @ < 2 THEN @ + 1 ELSE @]
    /\ UNCHANGED <<http_method, path, seat_id, user_id, trip>>

\* handle_request returns its response; the invocation is over
Respond(r) ==
    /\ pc[r] = "reply"
    /\ pc' = [pc EXCEPT ![r] = "idle"]
    /\ http_method' = [http_method EXCEPT ![r] = None]
    /\ path' = [path EXCEPT ![r] = None]
    /\ seat_id' = [seat_id EXCEPT ![r] = None]
    /\ user_id' = [user_id EXCEPT ![r] = None]
    /\ response' = [response EXCEPT ![r] = NoResponse]
    /\ calls' = [calls EXCEPT ![r] = 0]
    /\ UNCHANGED <<table, granted, latest>>

Reply(r) == Respond(r) /\ UNCHANGED trip

Next ==
    \E r \in Slots :
        \/ Receive(r)
        \/ Scan(r)
        \/ PutItem(r)
        \/ DeleteItem(r)
        \/ Reply(r)

Spec == Init /\ [][Next]_vars

\* once the store call has returned nothing holds the handler back: it
\* returns its response
FairSpec == Spec /\ \A r \in Slots : WF_vars(Reply(r))

(* The round trip of one client: reserve, list, cancel, list, each request  *)
(* sent when the response to the one before has arrived and with no other  *)
(* request in the system.                                                  *)

TripScript == <<"/reserve", "/seats", "/cancel", "/seats">>
TripLength == Len(TripScript)

TripEvent(t, i) ==
    IF TripScript[i] = "/seats"
    THEN [httpMethod |-> "GET", path |-> "/seats", body |-> Body("absent", None, None)]
    ELSE [httpMethod |-> "POST", path |-> TripScript[i],
          body |-> Body("object", t.seat, t.user)]

\* the tables the service can be in: at most one item for a seat
Tables == {t \in SUBSET AllItems : \A s \in Seats : Cardinality(ItemsAt(t, s)) <= 1}

\* the seat of the trip is free, the other seats are in any state
InitRoundTrip ==
    /\ table \in Tables
    /\ pc = [r \in Slots |-> "idle"]
    /\ http_method = [r \in Slots |-> None]
    /\ path = [r \in Slots |-> None]
    /\ seat_id = [r \in Slots |-> None]
    /\ user_id = [r \in Slots |-> None]
    /\ response = [r \in Slots |-> NoResponse]
    /\ granted = [s \in Seats |-> IF Owner(table, s) = Free THEN 0 ELSE 1]
    /\ calls = [r \in Slots |-> 0]
    /\ latest = [s \in Seats |-> IF Owner(table, s) = Free THEN None ELSE Owner(table, s)]
    /\ \E s \in Seats, u \in Users :
           /\ Owner(table, s) = Free
           /\ trip = [seat |-> s, user |-> u, before |-> table, log |-> <<>>]

TripReceive(r) ==
    /\ \A q \in Slots : pc[q] = "idle"
    /\ Len(trip.log) < TripLength
    /\ ReceiveEvent(r, TripEvent(trip, Len(trip.log) + 1))

TripReply(r) ==
    /\ Respond(r)
    /\ trip' = [trip EXCEPT !.log = Append(@, response[r])]

NextRoundTrip ==
    \E r \in Slots :
        \/ TripReceive(r)
        \/ Scan(r)
        \/ PutItem(r)
        \/ DeleteItem(r)
        \/ TripReply(r)

SpecRoundTrip == InitRoundTrip /\ [][NextRoundTrip]_vars

(* The stale cancel: one client has u1 reserve a seat, u1 cancel it and u2 *)
(* reserve it, each request sent when the response to the one before has   *)
(* arrived, while duplicates of the cancel of u1 arrive at any time and    *)
(* run concurrently in the other invocations.                              *)

StaleScript == <<"/reserve", "/cancel", "/reserve">>

\* the invocation that serves the requests of the script
ScriptSlot == CHOOSE r \in Slots : \A q \in Slots : r <= q

StaleEvent(t, i) ==
    [httpMethod |-> "POST", path |-> StaleScript[i],
     body |-> Body("object", t.seat, IF i < Len(StaleScript) THEN t.user ELSE t.rival)]

\* the duplicate or delayed cancel of the first user
StaleCancelEvent(t) ==
    [httpMethod |-> "POST", path |-> "/cancel", body |-> Body("object", t.seat, t.user)]

\* the seat of the script is free, the other seats are in any state
InitStaleCancel ==
    /\ table \in Tables
    /\ pc = [r \in Slots |-> "idle"]
    /\ http_method = [r \in Slots |-> None]
    /\ path = [r \in Slots |-> None]
    /\ seat_id = [r \in Slots |-> None]
    /\ user_id = [r \in Slots |-> None]
    /\ response = [r \in Slots |-> NoResponse]
    /\ granted = [s \in Seats |-> IF Owner(table, s) = Free THEN 0 ELSE 1]
    /\ calls = [r \in Slots |-> 0]
    /\ latest = [s \in Seats |-> IF Owner(table, s) = Free THEN None ELSE Owner(table, s)]
    /\ \E s \in Seats, u \in Users, v \in Users :
           /\ Owner(table, s) = Free
           /\ v # u
           /\ trip = [seat |-> s, user |-> u, rival |-> v, before |-> table, log |-> <<>>]

ScriptReceive(r) ==
    /\ r = ScriptSlot
    /\ Len(trip.log) < Len(StaleScript)
    /\ ReceiveEvent(r, StaleEvent(trip, Len(trip.log) + 1))

StaleCancelReceive(r) ==
    /\ r # ScriptSlot
    /\ ReceiveEvent(r, StaleCancelEvent(trip))

ScriptReply(r) ==
    /\ r = ScriptSlot
    /\ Respond(r)
    /\ trip' = [trip EXCEPT !.log = Append(@, response[r])]

StaleCancelReply(r) ==
    /\ r # ScriptSlot
    /\ Reply(r)

NextStaleCancel ==
    \E r \in Slots :
        \/ ScriptReceive(r)
        \/ StaleCancelReceive(r)
        \/ PutItem(r)
        \/ DeleteItem(r)
        \/ ScriptReply(r)
        \/ StaleCancelReply(r)

SpecStaleCancel == InitStaleCancel /\ [][NextStaleCancel]_vars

TypeOK ==
    /\ table \subseteq AllItems
    /\ pc \in [Slots -> {"idle", "store", "reply", "raised"}]
    /\ granted \in [Seats -> 0..2]

----------------------------------------------------------------------------
(* Vocabulary of the properties.                                           *)

\* invocation r takes its store step in this transition
StoreStep(r) == pc[r] = "store" /\ pc'[r] = "reply"

\* invocation r is answering a request of the given route
Answering(r, m, p) == pc[r] = "reply" /\ http_method[r] = m /\ path[r] = p

ReservedMsg(s) == Message("Seat " \o s \o " reserved successfully.")
TakenMsg(s) == Message("Seat " \o s \o " is already reserved.")
CanceledMsg(s) == Message("Reservation for seat " \o s \o " canceled.")
NotYoursMsg == Message("You cannot cancel this reservation as it does not belong to you.")
RequiredMsg == Message("Seat ID and User ID are required.")

----------------------------------------------------------------------------
\* C1 (as stated): for every seat, at most one reserve is answered 200
\* between two cancels answered 200, and of the reserves that compete for a
\* free seat the first one to reach the store is answered 200 and every
\* other one 409.
C1_ExactlyOne200Rest409 ==
    /\ [](\A s \in Seats : granted[s] <= 1)
    /\ [][\A r \in Slots : StoreStep(r) /\ path[r] = "/reserve" =>
            \/ granted[seat_id[r]] = 0 /\ response'[r] = Response(200, ReservedMsg(seat_id[r]))
            \/ granted[seat_id[r]] = 1 /\ response'[r] = Response(409, TakenMsg(seat_id[r]))]_vars

\* C1 (amended): for every seat, at most one reserve is answered 200 between
\* two cancels answered 200; of the reserves that compete for a free seat
\* the first one whose store call does not fail is answered 200, every later
\* one whose store call does not fail is answered 409, and one whose store
\* call fails is answered 500 and changes nothing.
C1_AtMostOne200 ==
    /\ [](\A s \in Seats : granted[s] <= 1)
    /\ [][\A r \in Slots : StoreStep(r) /\ path[r] = "/reserve" =>
            \/ granted[seat_id[r]] = 0 /\ response'[r] = Response(200, ReservedMsg(seat_id[r]))
            \/ granted[seat_id[r]] = 1 /\ response'[r] = Response(409, TakenMsg(seat_id[r]))
            \/ /\ response'[r] = Response(500, Message("An error occurred during reservation."))
               /\ granted' = granted /\ table' = table]_vars

\* two reserves of the same seat in flight together: one 200, the other 409
C1_Witness ==
    \E r1, r2 \in Slots :
        /\ Answering(r1, "POST", "/reserve") /\ Answering(r2, "POST", "/reserve")
        /\ seat_id[r1] = seat_id[r2]
        /\ response[r1].statusCode = 200 /\ response[r2].statusCode = 409

----------------------------------------------------------------------------
\* C2 (as stated): a cancel is answered 200 exactly when, at its delete, the
\* table holds a record of its seat owned by its user, and is answered 400
\* (ownership) in every other case; a record is never removed by a cancel of
\* another user.
C2_CancelOnlyByOwnerElse400 ==
    [][\A r \in Slots : StoreStep(r) /\ path[r] = "/cancel" =>
          IF Owner(table, seat_id[r]) = user_id[r]
          THEN /\ response'[r] = Response(200, CanceledMsg(seat_id[r]))
               /\ table' = table \ {Item(seat_id[r], user_id[r])}
          ELSE /\ response'[r] = Response(400, NotYoursMsg)
               /\ table' = table]_vars

\* C2 (amended): a cancel is answered 200 only if, at its delete, the table
\* holds a record of its seat owned by its user, and that record is the only
\* thing it removes; in every other case it is answered 400 (ownership), or
\* 500 when the store call itself fails, and the table is unchanged.
C2_CancelOnlyByOwner ==
    [][\A r \in Slots : StoreStep(r) /\ path[r] = "/cancel" =>
          \/ /\ Owner(table, seat_id[r]) = user_id[r]
             /\ response'[r] = Response(200, CanceledMsg(seat_id[r]))
             /\ table' = table \ {Item(seat_id[r], user_id[r])}
          \/ /\ Owner(table, seat_id[r]) # user_id[r]
             /\ response'[r] = Response(400, NotYoursMsg)
             /\ table' = table
          \/ /\ response'[r] = Response(500, Message("An error occurred while canceling."))
             /\ table' = table]_vars

\* a cancel by a user who is not the owner was answered 400 and the record
\* of the owner is still there
C2_Witness ==
    \E r \in Slots :
        /\ Answering(r, "POST", "/cancel")
        /\ response[r] = Response(400, NotYoursMsg)
        /\ Owner(table, seat_id[r]) \in Users \ {user_id[r]}

----------------------------------------------------------------------------
\* what a listing of table t has to be: the seats with a record, each with
\* its owner
IsListingOf(b, t) ==
    /\ DOMAIN b = {s \in Seats : Owner(t, s) # Free}
    /\ \A s \in DOMAIN b : b[s] = [reserved_by |-> Owner(t, s)]

\* C3 (as stated): whenever GET /seats returns 200, the returned map is the
\* listing of the table as it is at that moment.
C3_ListingIsCurrentTable ==
    \A r \in Slots :
        Answering(r, "GET", "/seats") /\ response[r].statusCode = 200
            => IsListingOf(response[r].body, table)

\* C3 (amended): whenever GET /seats returns 200, the returned map is the
\* listing of the table as it was at the scan of that request: its keys are
\* exactly the seats that had a record then, each mapped to its owner; a
\* seat that is free at the scan is absent from the listing.
C3_ListingIsTableAtScan ==
    [][\A r \in Slots : StoreStep(r) /\ path[r] = "/seats" =>
          \/ /\ response'[r].statusCode = 200
             /\ IsListingOf(response'[r].body, table)
             /\ \A s \in Seats : Owner(table, s) = Free => s \notin DOMAIN response'[r].body
          \/ response'[r] = Response(500, Message("Failed to retrieve seats."))]_vars

\* a listing with a reserved seat and without a free one is being returned
C3_Witness ==
    \E r \in Slots :
        /\ Answering(r, "GET", "/seats") /\ response[r].statusCode = 200
        /\ IsListingOf(response[r].body, table)
        /\ DOMAIN response[r].body # {} /\ DOMAIN response[r].body # Seats

----------------------------------------------------------------------------
\* seatId or userId is missing from the body: no body, an empty body, or an
\* object in which one of the two is absent or the empty string
MissingField(b) ==
    \/ b.kind \in {"absent", "empty"}
    \/ b.kind = "object" /\ (Falsy(b.seatId) \/ Falsy(b.userId))

\* C4: every POST /reserve or POST /cancel request in which seatId or userId
\* is missing is answered 400 "Seat ID and User ID are required.", makes no
\* store call and leaves the table unchanged.
C4_MissingFieldIs400 ==
    [][\A r \in Slots : \A event \in Events :
          /\ ReceiveEvent(r, event)
          /\ event.httpMethod = "POST" /\ event.path \in {"/reserve", "/cancel"}
          /\ MissingField(event.body)
          => /\ pc'[r] = "reply"
             /\ response'[r] = Response(400, RequiredMsg)
             /\ table' = table]_vars

----------------------------------------------------------------------------
\* C5: every seat has at most one record, and the owner of a record is never
\* changed in place: between two different owners the seat is free.
C5_OneOwnerNeverOverwritten ==
    /\ [](\A s \in Seats : Cardinality(ItemsAt(table, s)) <= 1)
    /\ [][\A s \in Seats :
            Owner(table, s) # Free /\ Owner(table', s) # Free
                => Owner(table', s) = Owner(table, s)]_vars

\* a reserve by another user on a reserved seat was refused and the owner
\* is who it was
C5_Witness ==
    \E r \in Slots :
        /\ Answering(r, "POST", "/reserve")
        /\ response[r].statusCode = 409
        /\ Owner(table, seat_id[r]) \in Users \ {user_id[r]}

----------------------------------------------------------------------------
\* C7: the table changes only in the store step of a reserve answered 200,
\* which adds the record (seatId, userId) of that request to a free seat, or
\* in the store step of a cancel answered 200, which removes the record
\* (seatId, userId) of that request; no other step of any request (GET
\* /seats, unknown routes, rejected or failed reserve and cancel) creates or
\* removes a record.
C7_RecordsOnlyBy200 ==
    [][table' # table =>
          \E r \in Slots :
              /\ StoreStep(r)
              /\ response'[r].statusCode = 200
              /\ LET rec == Item(seat_id[r], user_id[r])
                 IN  \/ /\ path[r] = "/reserve"
                        /\ ItemsAt(table, seat_id[r]) = {}
                        /\ table' = table \cup {rec}
                     \/ /\ path[r] = "/cancel"
                        /\ rec \in table
                        /\ table' = table \ {rec}]_vars

\* a reserve answered 200 whose record is in the table, next to a cancel
\* answered 200 whose seat is free
C7_Witness ==
    \E r1, r2 \in Slots :
        /\ Answering(r1, "POST", "/reserve") /\ response[r1].statusCode = 200
        /\ Item(seat_id[r1], user_id[r1]) \in table
        /\ Answering(r2, "POST", "/cancel") /\ response[r2].statusCode = 200
        /\ Owner(table, seat_id[r2]) = Free

----------------------------------------------------------------------------
\* C8: the store step of a reserve answered 409 and of a cancel answered 400
\* for ownership leaves the table exactly as it was.
C8_FailedConditionNoEffect ==
    [][\A r \in Slots :
          /\ StoreStep(r)
          /\ \/ response'[r] = Response(409, TakenMsg(seat_id[r]))
             \/ response'[r] = Response(400, NotYoursMsg)
          => table' = table]_vars

\* a refused reserve and a refused cancel in flight, the records they
\* targeted in place
C8_Witness ==
    \E r1, r2 \in Slots :
        /\ Answering(r1, "POST", "/reserve") /\ response[r1] = Response(409, TakenMsg(seat_id[r1]))
        /\ Answering(r2, "POST", "/cancel") /\ response[r2] = Response(400, NotYoursMsg)
        /\ Owner(table, seat_id[r1]) # Free
        /\ Owner(table, seat_id[r2]) \in Users \ {user_id[r2]}

----------------------------------------------------------------------------
\* the body makes the handler fail outside its own try: json.loads raises on
\* it, or it is not a JSON object
Unparsable(b) == b.kind \in {"absent", "empty", "array"}

InternalError == Response(500, Message("An internal error occurred."))

\* C9: no invocation ends with an exception leaving handle_request; an
\* invocation builds one response, when it passes to its reply, and does
\* not replace it; a POST /reserve or POST /cancel whose body is missing,
\* is not JSON or is not a JSON object is answered 500 "An internal error
\* occurred.", whatever the store holds.
C9_NeverRaisesOneResponse ==
    /\ [](\A r \in Slots :
            /\ pc[r] # "raised"
            /\ (pc[r] = "reply") <=> (response[r] # NoResponse)
            /\ pc[r] = "reply" => response[r].statusCode \in {200, 400, 404, 409, 500})
    /\ [][\A r \in Slots :
            /\ response'[r] # response[r] =>
                  \/ response[r] = NoResponse /\ pc[r] # "reply" /\ pc'[r] = "reply"
                  \/ pc[r] = "reply" /\ pc'[r] = "idle" /\ response'[r] = NoResponse
            /\ /\ pc[r] = "idle" /\ pc'[r] # "idle"
               /\ http_method'[r] = "POST" /\ path'[r] \in {"/reserve", "/cancel"}
               => \A b \in {x \in Bodies : Unparsable(x)} :
                      ReceiveEvent(r, [httpMethod |-> "POST", path |-> path'[r], body |-> b])
                          => pc'[r] = "reply" /\ response'[r] = InternalError]_vars

\* a POST /reserve with a body that does not parse is being answered 500
\* while a seat is reserved
C9_Witness ==
    \E r \in Slots :
        /\ Answering(r, "POST", "/reserve")
        /\ response[r] = InternalError
        /\ table # {}

----------------------------------------------------------------------------
KnownRoute(m, p) ==
    \/ m = "GET" /\ p = "/seats"
    \/ m = "POST" /\ p = "/reserve"
    \/ m = "POST" /\ p = "/cancel"

\* C10: a request whose (method, path) is none of GET /seats, POST /reserve,
\* POST /cancel is answered 404 "Not Found" without a store call: it passes
\* from its reception to its reply, and its steps leave the table unchanged.
C10_UnknownRouteIs404 ==
    /\ [](\A r \in Slots :
            pc[r] # "idle" /\ ~KnownRoute(http_method[r], path[r])
                => pc[r] = "reply" /\ response[r] = Response(404, Message("Not Found")))
    /\ [][\A r \in Slots :
            /\ pc'[r] # pc[r]
            /\ \/ pc[r] = "idle" /\ ~KnownRoute(http_method'[r], path'[r])
               \/ pc[r] # "idle" /\ ~KnownRoute(http_method[r], path[r])
            => table' = table]_vars

\* DELETE /seats, GET /reserve or POST /seats is being answered 404
C10_Witness ==
    \E r \in Slots :
        /\ \/ Answering(r, "DELETE", "/seats")
           \/ Answering(r, "GET", "/reserve")
           \/ Answering(r, "POST", "/seats")
        /\ response[r] = Response(404, Message("Not Found"))
        /\ table # {}

----------------------------------------------------------------------------
\* the i-th response of the trip is the one of the round trip
TripResponseOK(i) ==
    LET a == trip.log[i]
    IN  IF i = 1 THEN a = Response(200, ReservedMsg(trip.seat))
        ELSE IF i = 2 THEN /\ a.statusCode = 200
                           /\ trip.seat \in DOMAIN a.body
                           /\ a.body[trip.seat] = [reserved_by |-> trip.user]
        ELSE IF i = 3 THEN a = Response(200, CanceledMsg(trip.seat))
        ELSE /\ a.statusCode = 200
             /\ trip.seat \notin DOMAIN a.body

----------------------------------------------------------------------------
\* C11: the store step of a reserve or a cancel on seat s leaves the records
\* of every other seat as they were, and its status depends on the record of
\* s alone (and on the store call failing or not), whatever the other seats
\* hold: a reserve is answered 200 when s is free and 409 when it is not, a
\* cancel 200 when s is owned by its user and 400 when it is not, either one
\* 500 when the store call fails.
C11_SeatsIndependent ==
    [][\A r \in Slots :
          StoreStep(r) /\ path[r] \in {"/reserve", "/cancel"} =>
              /\ \A t \in Seats \ {seat_id[r]} : ItemsAt(table', t) = ItemsAt(table, t)
              /\ response'[r].statusCode \in
                    {500,
                     IF path[r] = "/reserve"
                     THEN (IF Owner(table, seat_id[r]) = Free THEN 200 ELSE 409)
                     ELSE (IF Owner(table, seat_id[r]) = user_id[r] THEN 200 ELSE 400)}]_vars

\* a reserve answered 200 on one seat next to a reserve answered 409 on
\* another seat, both seats reserved
C11_Witness ==
    \E r1, r2 \in Slots :
        /\ Answering(r1, "POST", "/reserve") /\ response[r1].statusCode = 200
        /\ Answering(r2, "POST", "/reserve") /\ response[r2].statusCode = 409
        /\ seat_id[r1] # seat_id[r2]
        /\ Owner(table, seat_id[r1]) = user_id[r1]
        /\ Owner(table, seat_id[r2]) # Free
----------------------------------------------------------------------------
\* C12: an invocation makes at most one store call and does not repeat it:
\* the store step, whatever its outcome, takes it to its reply with its
\* response built; from there it can return whatever the other invocations
\* do, it goes nowhere else, and it eventually returns.
C12_OneStoreCallThenResponse ==
    /\ [](\A r \in Slots :
            /\ calls[r] <= 1
            /\ pc[r] = "reply" => ENABLED Reply(r))
    /\ [][\A r \in Slots :
            /\ pc[r] = "store" /\ (pc'[r] # "store" \/ calls'[r] # calls[r])
                  => pc'[r] = "reply" /\ response'[r] # NoResponse
            /\ pc[r] = "reply" /\ pc'[r] # "reply"
                  => pc'[r] = "idle" /\ table' = table]_vars
    /\ \A r \in Slots : (pc[r] = "reply") ~> (pc[r] = "idle")

\* the store call of a reserve has failed and the one of a cancel has met
\* its condition failure: each made one call and is about to return
C12_Witness ==
    \E r1, r2 \in Slots :
        /\ Answering(r1, "POST", "/reserve") /\ response[r1].statusCode = 500
        /\ calls[r1] = 1
        /\ Answering(r2, "POST", "/cancel") /\ response[r2].statusCode = 400
        /\ calls[r2] = 1
----------------------------------------------------------------------------
\* the texts a message can be: fixed, or fixed around the seatId of the
\* request
MessageTexts(s) ==
    {"Not Found",
     "An internal error occurred.",
     "Failed to retrieve seats.",
     "Seat ID and User ID are required.",
     "An error occurred during reservation.",
     "An error occurred while canceling.",
     "You cannot cancel this reservation as it does not belong to you."}
    \cup (IF s \in Seats THEN {"Seat " \o s \o " is already reserved."} ELSE {})

\* C13: a response whose status is not 200 has as body an object with the
\* one field message, its text one of the fixed texts (the 409 text around
\* the seatId of the request): no owner, no detail of the failure; a reserve
\* is answered 200, 400, 409 or 500, a cancel 200, 400 or 500, GET /seats
\* 200 or 500.
C13_StatusesAndMessages ==
    \A r \in Slots :
        pc[r] = "reply" =>
            /\ response[r].statusCode # 200 =>
                  /\ DOMAIN response[r].body = {"message"}
                  /\ response[r].body.message \in MessageTexts(seat_id[r])
            /\ Answering(r, "POST", "/reserve") => response[r].statusCode \in {200, 400, 409, 500}
            /\ Answering(r, "POST", "/cancel") => response[r].statusCode \in {200, 400, 500}
            /\ Answering(r, "GET", "/seats") => response[r].statusCode \in {200, 500}

\* a reserve refused with 409 on a seat that has an owner, next to a reserve
\* whose store call failed
C13_Witness ==
    \E r1, r2 \in Slots :
        /\ Answering(r1, "POST", "/reserve")
        /\ response[r1] = Response(409, TakenMsg(seat_id[r1]))
        /\ Owner(table, seat_id[r1]) \in Users
        /\ Answering(r2, "POST", "/reserve")
        /\ response[r2] = Response(500, Message("An error occurred during reservation."))
----------------------------------------------------------------------------
\* the store step of invocation r with a store call that does not fail
StoreStepNoFailure(r) ==
    /\ PutItem(r) \/ DeleteItem(r)
    /\ response'[r].statusCode # 500

\* C14: a seat is free or reserved and never stuck: the store step of a
\* reserve(s,u) on a free seat s, by any user u, is answered 200 and makes u
\* the owner unless the store call fails; the store step of a cancel(s,u) on
\* a seat owned by u is answered 200 and frees the seat unless the store
\* call fails; a store step that does not fail is always possible.
C14_FreeReservedCycle ==
    /\ [](\A r \in Slots :
            pc[r] = "store" /\ path[r] \in {"/reserve", "/cancel"}
                => ENABLED StoreStepNoFailure(r))
    /\ [][\A r \in Slots :
            /\ StoreStep(r) /\ path[r] = "/reserve"
               /\ Owner(table, seat_id[r]) = Free
               /\ response'[r].statusCode # 500
               => /\ response'[r] = Response(200, ReservedMsg(seat_id[r]))
                  /\ Owner(table', seat_id[r]) = user_id[r]
            /\ StoreStep(r) /\ path[r] = "/cancel"
               /\ Owner(table, seat_id[r]) = user_id[r]
               /\ response'[r].statusCode # 500
               => /\ response'[r] = Response(200, CanceledMsg(seat_id[r]))
                  /\ Owner(table', seat_id[r]) = Free]_vars

\* a seat canceled by its owner has been reserved by the other user: both
\* answers, 200, are in flight and the seat belongs to the new user
C14_Witness ==
    \E r1, r2 \in Slots :
        /\ Answering(r1, "POST", "/cancel") /\ response[r1].statusCode = 200
        /\ Answering(r2, "POST", "/reserve") /\ response[r2].statusCode = 200
        /\ seat_id[r1] = seat_id[r2]
        /\ user_id[r1] # user_id[r2]
        /\ Owner(table, seat_id[r2]) = user_id[r2]
----------------------------------------------------------------------------
\* C15: of the cancels (s,u) that reach the store while s is reserved by u
\* or, no reserve having come in between, already free again, the one that
\* finds the record of u is answered 200 and frees the seat, and every other
\* one is answered 400 with the ownership message and changes nothing.
C15_OneCancel200Rest400 ==
    [][\A r \in Slots :
          StoreStep(r) /\ path[r] = "/cancel"
          /\ Owner(table, seat_id[r]) \in {user_id[r], Free} =>
              \/ /\ Owner(table, seat_id[r]) = user_id[r]
                 /\ response'[r] = Response(200, CanceledMsg(seat_id[r]))
                 /\ Owner(table', seat_id[r]) = Free
              \/ /\ Owner(table, seat_id[r]) = Free
                 /\ response'[r] = Response(400, NotYoursMsg)
                 /\ table' = table]_vars

\* C15 (amended): of the cancels (s,u) that reach the store while s is
\* reserved by u or already free again, at most one is answered 200, the one
\* that finds the record of u, and it frees the seat; every other one whose
\* store call does not fail is answered 400 with the ownership message; one
\* whose store call fails is answered 500; neither changes the table.
C15_AtMostOneCancel200 ==
    [][\A r \in Slots :
          StoreStep(r) /\ path[r] = "/cancel"
          /\ Owner(table, seat_id[r]) \in {user_id[r], Free} =>
              \/ /\ Owner(table, seat_id[r]) = user_id[r]
                 /\ response'[r] = Response(200, CanceledMsg(seat_id[r]))
                 /\ Owner(table', seat_id[r]) = Free
              \/ /\ Owner(table, seat_id[r]) = Free
                 /\ response'[r] = Response(400, NotYoursMsg)
                 /\ table' = table
              \/ /\ response'[r] = Response(500, Message("An error occurred while canceling."))
                 /\ table' = table]_vars

\* two cancels of the same seat by the same user in flight together: one
\* answered 200, the other 400 with the ownership message, the seat free
C15_Witness ==
    \E r1, r2 \in Slots :
        /\ Answering(r1, "POST", "/cancel") /\ Answering(r2, "POST", "/cancel")
        /\ seat_id[r1] = seat_id[r2] /\ user_id[r1] = user_id[r2]
        /\ response[r1] = Response(200, CanceledMsg(seat_id[r1]))
        /\ response[r2] = Response(400, NotYoursMsg)
        /\ Owner(table, seat_id[r1]) = Free
----------------------------------------------------------------------------
\* C16: a reserve (s,u) that reaches the store while s is reserved, by u
\* itself or by another user alike, is answered 409 and leaves the record
\* of s as it was.
C16_ReserveByOwnerIs409 ==
    [][\A r \in Slots :
          StoreStep(r) /\ path[r] = "/reserve"
          /\ Owner(table, seat_id[r]) # Free =>
              /\ response'[r] = Response(409, TakenMsg(seat_id[r]))
              /\ table' = table]_vars

\* C16 (amended): a reserve (s,u) that reaches the store while s is
\* reserved, by u itself or by another user alike, leaves the record of s as
\* it was and is answered 409, or 500 when the store call fails.
C16_ReserveByOwnerIs409Or500 ==
    [][\A r \in Slots :
          StoreStep(r) /\ path[r] = "/reserve"
          /\ Owner(table, seat_id[r]) # Free =>
              /\ table' = table
              /\ \/ response'[r] = Response(409, TakenMsg(seat_id[r]))
                 \/ response'[r] = Response(500, Message("An error occurred during reservation."))]_vars

\* the user who holds the seat reserves it again and is answered 409, as is
\* another user who reserves it; the record is unchanged
C16_Witness ==
    \E r1, r2 \in Slots :
        /\ Answering(r1, "POST", "/reserve") /\ Answering(r2, "POST", "/reserve")
        /\ seat_id[r1] = seat_id[r2]
        /\ Owner(table, seat_id[r1]) = user_id[r1]
        /\ user_id[r2] # user_id[r1]
        /\ response[r1] = Response(409, TakenMsg(seat_id[r1]))
        /\ response[r2] = Response(409, TakenMsg(seat_id[r2]))
        /\ ItemsAt(table, seat_id[r1]) = {Item(seat_id[r1], user_id[r1])}
----------------------------------------------------------------------------
\* the reserve of the second user has been answered 200 at its store step
RivalReserved ==
    \/ /\ Len(trip.log) = Len(StaleScript)
       /\ trip.log[Len(StaleScript)].statusCode = 200
    \/ /\ Len(trip.log) = Len(StaleScript) - 1
       /\ pc[ScriptSlot] = "reply"
       /\ response[ScriptSlot].statusCode = 200

\* u1 has reserved the seat, u1 has canceled it and u2 has reserved it
StaleScenario ==
    /\ Len(trip.log) >= Len(StaleScript) - 1
    /\ \A i \in 1..(Len(StaleScript) - 1) : trip.log[i].statusCode = 200
    /\ RivalReserved

\* C17: once u1 has reserved s, u1 has canceled s and u2 has reserved s, a
\* further cancel (s,u1) that reaches the store is answered 400 with the
\* ownership message and s stays reserved by u2.
C17_StaleCancelIs400 ==
    [][\A r \in Slots :
          r # ScriptSlot /\ StoreStep(r) /\ StaleScenario =>
              /\ response'[r] = Response(400, NotYoursMsg)
              /\ ItemsAt(table', trip.seat) = {Item(trip.seat, trip.rival)}]_vars

\* C17 (amended): once u1 has reserved s, u1 has canceled s and u2 has
\* reserved s, a further cancel (s,u1) that reaches the store leaves s
\* reserved by u2 and is answered 400 with the ownership message, or 500
\* when its store call fails.
C17_StaleCancelIs400Or500 ==
    [][\A r \in Slots :
          r # ScriptSlot /\ StoreStep(r) /\ StaleScenario =>
              /\ \/ response'[r] = Response(400, NotYoursMsg)
                 \/ response'[r] = Response(500, Message("An error occurred while canceling."))
              /\ ItemsAt(table', trip.seat) = {Item(trip.seat, trip.rival)}]_vars

\* the three requests of the script answered 200, a stale cancel answered
\* 400 with the ownership message, the seat reserved by the second user
C17_Witness ==
    /\ Len(trip.log) = Len(StaleScript)
    /\ \A i \in 1..Len(StaleScript) : trip.log[i].statusCode = 200
    /\ \E r \in Slots \ {ScriptSlot} :
           /\ Answering(r, "POST", "/cancel")
           /\ seat_id[r] = trip.seat /\ user_id[r] = trip.user
           /\ response[r] = Response(400, NotYoursMsg)
    /\ Owner(table, trip.seat) = trip.rival
----------------------------------------------------------------------------
\* C18: the store step of a reserve (s,u) that is answered 200 leaves
\* exactly the record (s,u) under s; a record (s,u) enters the table only in
\* the store step of a reserve (s,u) answered 200 (or 500 for a store call
\* that failed); and the owner stored for s is always the user of the latest
\* reserve of s answered 200 and not followed by a cancel of s answered 200,
\* the seat being free when there is none.
C18_ResponsesAgreeWithStore ==
    /\ [](\A s \in Seats :
            /\ Owner(table, s) = (IF latest[s] = None THEN Free ELSE latest[s])
            /\ Cardinality(ItemsAt(table, s)) <= 1)
    /\ [][/\ \A r \in Slots :
                StoreStep(r) /\ path[r] = "/reserve" /\ response'[r].statusCode = 200
                    => ItemsAt(table', seat_id[r]) = {Item(seat_id[r], user_id[r])}
          /\ \A i \in table' \ table :
                \E r \in Slots :
                    /\ StoreStep(r) /\ path[r] = "/reserve"
                    /\ i = Item(seat_id[r], user_id[r])
                    /\ \/ response'[r].statusCode = 200
                       \/ response'[r] = Response(500, Message("An error occurred during reservation."))]_vars

\* a reserve is being answered 200 and the store holds exactly its record,
\* while a reserve of the same seat by another user is being answered 409
C18_Witness ==
    \E r1, r2 \in Slots :
        /\ Answering(r1, "POST", "/reserve") /\ response[r1].statusCode = 200
        /\ Answering(r2, "POST", "/reserve") /\ response[r2].statusCode = 409
        /\ seat_id[r1] = seat_id[r2] /\ user_id[r1] # user_id[r2]
        /\ latest[seat_id[r1]] = user_id[r1]
        /\ ItemsAt(table, seat_id[r1]) = {Item(seat_id[r1], user_id[r1])}

====
